---------------------------- MODULE Spec2Model ----------------------------
(***************************************************************************)
(* Agreement validation (validator.py): text extraction, identifier and    *)
(* keyword scanning, character diff, similarity scoring and the validate   *)
(* orchestrator.                                                           *)
(*                                                                         *)
(* A Python str is a sequence of one-character strings.  A float that the  *)
(* code computes by division is an exact rational <<num, den>>, den > 0,   *)
(* compared by cross multiplication.                                       *)
(***************************************************************************)
EXTENDS Integers, Sequences, FiniteSets, TLC

VARIABLES
    pc,             \* position of the running call
    a, b,           \* arguments of simple_diff / fuzzy_ratio
    diff,           \* value returned by simple_diff
    score,          \* value returned by fuzzy_ratio
    backend,        \* whether pdfplumber and pdf2image can be imported
    pdf,            \* the document behind the path given to extract_text_and_images
    extracted,      \* value returned by extract_text_and_images
    config_file,    \* what is found at config_path
    self,           \* the AgreementValidator under construction / constructed
    text,           \* argument of _keyword_check
    found,          \* value returned by _keyword_check
    main_pdf,       \* the document behind validate's main_pdf
    client_pdf,     \* the document behind validate's client_pdf
    documents,      \* validate's documents: the documents behind the paths, or None
    document_names, \* validate's document_names, or None
    summary         \* value returned by validate

helperVars == <<a, b, diff, score>>
extractVars == <<pdf, extracted>>
ctorVars == <<config_file, self>>
keywordVars == <<text, found>>
validateVars == <<main_pdf, client_pdf, documents, document_names, summary>>
vars == <<pc, helperVars, backend, extractVars, ctorVars, keywordVars, validateVars>>

\* Python's None where a str is expected: a sequence no str equals
None == <<"None">>

\* a variable no call has set yet, and None where a list or a dict is expected
NoValue == [none |-> TRUE]

-----------------------------------------------------------------------------
(* Bounds of the model *)

\* longest argument handed to simple_diff / fuzzy_ratio
MaxLen == 3
\* most pages of a document handed to extract_text_and_images
MaxPages == 3
\* longest configured keyword, most configured keywords, longest scanned text
MaxKeywordLen == 1
MaxKeywords == 2
MaxKeywordText == 2
\* longest enumerated text of a main or client document
MaxTextLen == 3
\* most extra documents
MaxDocuments == 2

-----------------------------------------------------------------------------
(* str helpers *)

Min(x, y) == IF x <= y THEN x ELSE y

\* all sequences over S of length at most n
StringsUpTo(S, n) == UNION {[1..k -> S] : k \in 0..n}

\* Python slice s[i:j] for 0 <= i, j (clamped to len(s))
Slice(s, i, j) == SubSeq(s, Min(i, Len(s)) + 1, Min(j, Len(s)))

\* characters str.isspace() holds for, among those the model uses
Whitespace == {" ", "\t", "\n", "\r", "\f"}

UpperLetters ==
    <<"A", "B", "C", "D", "E", "F", "G", "H", "I", "J", "K", "L", "M",
      "N", "O", "P", "Q", "R", "S", "T", "U", "V", "W", "X", "Y", "Z">>
LowerLetters ==
    <<"a", "b", "c", "d", "e", "f", "g", "h", "i", "j", "k", "l", "m",
      "n", "o", "p", "q", "r", "s", "t", "u", "v", "w", "x", "y", "z">>
Digits == <<"0", "1", "2", "3", "4", "5", "6", "7", "8", "9">>

Range(f) == {f[i] : i \in DOMAIN f}

\* str.lower() of one character
LowerChar(c) ==
    IF c \in Range(UpperLetters)
    THEN LowerLetters[CHOOSE i \in DOMAIN UpperLetters : UpperLetters[i] = c]
    ELSE c

\* str.lower()
Lower(s) == [i \in 1..Len(s) |-> LowerChar(s[i])]

\* str.split() with no argument: the maximal runs of non-whitespace, as a set
\* (the code only ever builds set(s.split()))
TokenSet(s) ==
    {Slice(s, i, j) : <<i, j>> \in
        {p \in (0..Len(s)) \X (0..Len(s)) :
            /\ p[1] < p[2]
            /\ \A k \in (p[1] + 1)..p[2] : s[k] \notin Whitespace
            /\ (p[1] = 0 \/ s[p[1]] \in Whitespace)
            /\ (p[2] = Len(s) \/ s[p[2] + 1] \in Whitespace)}}

-----------------------------------------------------------------------------
(* difflib.SequenceMatcher(None, a, b), as validator.py uses it: no junk    *)
(* function; the autojunk heuristic only acts when len(b) >= 200.          *)

\* length of the run of equal characters starting at offsets i of x and j of y,
\* inside x[..ahi) and y[..bhi)
RECURSIVE RunLen(_, _, _, _, _, _)
RunLen(x, y, i, j, ahi, bhi) ==
    IF i < ahi /\ j < bhi /\ x[i + 1] = y[j + 1]
    THEN 1 + RunLen(x, y, i + 1, j + 1, ahi, bhi)
    ELSE 0

\* find_longest_match: the longest block x[i:i+k] = y[j:j+k] inside
\* x[alo:ahi], y[blo:bhi]; of the longest, the one starting earliest in x, and
\* of those the one starting earliest in y; (alo, blo, 0) when nothing matches
find_longest_match(x, y, alo, ahi, blo, bhi) ==
    LET P == (alo..(ahi - 1)) \X (blo..(bhi - 1))
        len(p) == RunLen(x, y, p[1], p[2], ahi, bhi)
        hits == {p \in P : x[p[1] + 1] = y[p[2] + 1]}
    IN  IF hits = {} THEN <<alo, blo, 0>>
        ELSE LET k == CHOOSE n \in {len(p) : p \in hits} :
                          \A q \in hits : len(q) <= n
                 longest == {p \in hits : len(p) = k}
                 i == CHOOSE n \in {p[1] : p \in longest} :
                          \A q \in longest : n <= q[1]
                 j == CHOOSE n \in {p[2] : p \in {q \in longest : q[1] = i}} :
                          \A q \in longest : q[1] = i => n <= q[2]
             IN  <<i, j, k>>

\* the recursion of get_matching_blocks: the longest match, then the pieces
\* to its left and to its right, in increasing order
RECURSIVE BlocksIn(_, _, _, _, _, _)
BlocksIn(x, y, alo, ahi, blo, bhi) ==
    LET m == find_longest_match(x, y, alo, ahi, blo, bhi)
        i == m[1]
        j == m[2]
        k == m[3]
    IN  IF k = 0 THEN <<>>
        ELSE (IF alo < i /\ blo < j THEN BlocksIn(x, y, alo, i, blo, j) ELSE <<>>)
             \o <<m>>
             \o (IF i + k < ahi /\ j + k < bhi
                 THEN BlocksIn(x, y, i + k, ahi, j + k, bhi) ELSE <<>>)

\* adjacent blocks collapsed into one
RECURSIVE MergeAdjacent(_)
MergeAdjacent(blocks) ==
    IF Len(blocks) < 2 THEN blocks
    ELSE LET p == blocks[1]
             q == blocks[2]
         IN  IF p[1] + p[3] = q[1] /\ p[2] + p[3] = q[2]
             THEN MergeAdjacent(<<<<p[1], p[2], p[3] + q[3]>>>> \o SubSeq(blocks, 3, Len(blocks)))
             ELSE <<p>> \o MergeAdjacent(Tail(blocks))

\* get_matching_blocks: the merged blocks and the sentinel (len(a), len(b), 0)
get_matching_blocks(x, y) ==
    MergeAdjacent(BlocksIn(x, y, 0, Len(x), 0, Len(y))) \o <<<<Len(x), Len(y), 0>>>>

\* get_opcodes: the edit script read off the matching blocks
RECURSIVE OpcodesFrom(_, _, _)
OpcodesFrom(blocks, i, j) ==
    IF blocks = <<>> THEN <<>>
    ELSE LET ai == blocks[1][1]
             bj == blocks[1][2]
             size == blocks[1][3]
             tag == IF i < ai /\ j < bj THEN "replace"
                    ELSE IF i < ai THEN "delete"
                    ELSE IF j < bj THEN "insert"
                    ELSE ""
         IN  (IF tag # "" THEN <<[tag |-> tag, i1 |-> i, i2 |-> ai, j1 |-> j, j2 |-> bj]>>
              ELSE <<>>)
             \o (IF size > 0
                 THEN <<[tag |-> "equal", i1 |-> ai, i2 |-> ai + size,
                         j1 |-> bj, j2 |-> bj + size]>>
                 ELSE <<>>)
             \o OpcodesFrom(Tail(blocks), ai + size, bj + size)

get_opcodes(x, y) == OpcodesFrom(get_matching_blocks(x, y), 0, 0)

RECURSIVE SumSizes(_)
SumSizes(blocks) == IF blocks = <<>> THEN 0 ELSE blocks[1][3] + SumSizes(Tail(blocks))

\* ratio(): 2.0 * matches / (len(a) + len(b)), and 1.0 for two empty strings
ratio(x, y) ==
    IF Len(x) + Len(y) = 0 THEN <<1, 1>>
    ELSE <<2 * SumSizes(get_matching_blocks(x, y)), Len(x) + Len(y)>>

-----------------------------------------------------------------------------
(* Helpers of validator.py *)

RECURSIVE SpansOf(_, _, _)
\* the spans of the opcodes tagged `tag`, in opcode order, cut from x or from y
SpansOf(ops, tag, xy) ==
    IF ops = <<>> THEN <<>>
    ELSE (IF ops[1].tag = tag
          THEN <<IF tag = "insert" THEN Slice(xy, ops[1].j1, ops[1].j2)
                                   ELSE Slice(xy, ops[1].i1, ops[1].i2)>>
          ELSE <<>>)
         \o SpansOf(Tail(ops), tag, xy)

simple_diff(x, y) ==
    LET ops == get_opcodes(x, y)
    IN  [added |-> SpansOf(ops, "insert", y), removed |-> SpansOf(ops, "delete", x)]

\* fuzzy_ratio with its two guards in the other order: "not a or not b" is
\* tested first, so two empty strings score 0.0
fuzzy_ratio_guards_swapped(x, y) ==
    IF x = <<>> \/ y = <<>> THEN <<0, 1>>
    ELSE LET a_tokens == TokenSet(Lower(x))
             b_tokens == TokenSet(Lower(y))
         IN  IF a_tokens = {} \/ b_tokens = {} THEN <<0, 1>>
             ELSE LET inter == Cardinality(a_tokens \cap b_tokens)
                      union == Cardinality(a_tokens \cup b_tokens)
                      seq == ratio(x, y)
                  IN  <<3 * inter * seq[2] + 2 * seq[1] * union, 5 * union * seq[2]>>

fuzzy_ratio(x, y) ==
    IF x = <<>> /\ y = <<>> THEN <<1, 1>>
    ELSE IF x = <<>> \/ y = <<>> THEN <<0, 1>>
    ELSE LET a_tokens == TokenSet(Lower(x))
             b_tokens == TokenSet(Lower(y))
         IN  IF a_tokens = {} \/ b_tokens = {} THEN <<0, 1>>
             ELSE LET inter == Cardinality(a_tokens \cap b_tokens)
                      union == Cardinality(a_tokens \cup b_tokens)
                      seq == ratio(x, y)
                  \* 0.6 * inter/union + 0.4 * seq = (3*inter*den + 2*num*union) / (5*union*den)
                  IN  <<3 * inter * seq[2] + 2 * seq[1] * union, 5 * union * seq[2]>>

clause_similarity(x, y) == fuzzy_ratio(x, y)

\* comparison of two rationals with positive denominators
RatLess(p, q) == p[1] * q[2] < q[1] * p[2]
RatEq(p, q) == p[1] * q[2] = q[1] * p[2]

-----------------------------------------------------------------------------
(* Minimal PDF extractor *)

\* A document is [openable, pages, convertible]: whether pdfplumber.open
\* succeeds, what page.extract_text() does on each page ("text": returns
\* .text, "none": returns None, "raise": raises), and whether
\* convert_from_path succeeds.

\* "sep".join(parts)
RECURSIVE Join(_, _)
Join(sep, parts) ==
    IF parts = <<>> THEN <<>>
    ELSE IF Len(parts) = 1 THEN parts[1]
    ELSE parts[1] \o sep \o Join(sep, Tail(parts))

\* the loop over pdf.pages inside the try: the texts appended so far, or
\* "raised" as soon as one page raises
RECURSIVE ExtractPages(_, _)
ExtractPages(pages, texts) ==
    IF pages = <<>> THEN [raised |-> FALSE, texts |-> texts]
    ELSE IF pages[1].kind = "raise" THEN [raised |-> TRUE, texts |-> texts]
    ELSE ExtractPages(Tail(pages),
                      Append(texts, IF pages[1].kind = "none" THEN <<>> ELSE pages[1].text))

extract_text_and_images(available, doc) ==
    IF ~available THEN [text |-> <<>>, pages |-> <<>>]
    ELSE LET loop == IF doc.openable THEN ExtractPages(doc.pages, <<>>)
                     ELSE [raised |-> TRUE, texts |-> <<>>]
             texts == IF loop.raised THEN <<<<>>>> ELSE loop.texts
             pil_pages == IF doc.convertible
                          THEN [i \in 1..Len(doc.pages) |-> [image |-> i]]
                          ELSE <<>>
         IN  [text |-> Join(<<"\n", "\n">>, texts), pages |-> pil_pages]

-----------------------------------------------------------------------------
(* re, for the patterns the validator is configured with.  A pattern string  *)
(* is the sequence of its atoms: "\\b", "(", ")", a character class, a        *)
(* literal character, a repetition "{n}" of the atom before it; "[A-Z" is a   *)
(* class that is never closed.                                               *)

RepeatAtoms == {"{2}", "{4}", "{5}"}

RepeatCount(atom) ==
    CASE atom = "{2}" -> 2 [] atom = "{4}" -> 4 [] atom = "{5}" -> 5

\* the characters a consuming atom accepts
Accepts(atom, c) ==
    CASE atom = "[A-Z]" -> c \in Range(UpperLetters)
      [] atom = "[0-9]" -> c \in Range(Digits)
      [] atom = "[1-9A-Z]" -> c \in (Range(Digits) \ {"0"}) \cup Range(UpperLetters)
      [] atom = "[0-9A-Z]" -> c \in Range(Digits) \cup Range(UpperLetters)
      [] OTHER -> c = atom

\* \w
IsWordChar(c) ==
    c \in Range(UpperLetters) \cup Range(LowerLetters) \cup Range(Digits) \cup {"_"}

\* the atoms with every repetition written out
RECURSIVE Expand(_)
Expand(atoms) ==
    IF atoms = <<>> THEN <<>>
    ELSE IF Len(atoms) >= 2 /\ atoms[2] \in RepeatAtoms
    THEN [i \in 1..RepeatCount(atoms[2]) |-> atoms[1]] \o Expand(SubSeq(atoms, 3, Len(atoms)))
    ELSE <<atoms[1]>> \o Expand(Tail(atoms))

\* nesting depth after the atoms, -1 once a ")" closes nothing
RECURSIVE ParenDepth(_, _)
ParenDepth(atoms, depth) ==
    IF depth < 0 \/ atoms = <<>> THEN depth
    ELSE ParenDepth(Tail(atoms),
                    IF atoms[1] = "(" THEN depth + 1
                    ELSE IF atoms[1] = ")" THEN depth - 1 ELSE depth)

\* re.compile: the program, or re.error
re_compile(pattern) ==
    IF "[A-Z" \in Range(pattern) \/ ParenDepth(pattern, 0) # 0
    THEN [error |-> "re.error"]
    ELSE [prog |-> Expand(pattern)]

\* the match of prog[k..] at offset pos of s: where it ends and where its
\* group lies, or ok = FALSE
RECURSIVE MatchFrom(_, _, _, _, _, _)
MatchFrom(prog, k, s, pos, gs, ge) ==
    IF k > Len(prog) THEN [ok |-> TRUE, end |-> pos, gs |-> gs, ge |-> ge]
    ELSE LET atom == prog[k]
         IN  IF atom = "\\b"
             THEN LET before == pos > 0 /\ IsWordChar(s[pos])
                      after == pos < Len(s) /\ IsWordChar(s[pos + 1])
                  IN  IF before # after THEN MatchFrom(prog, k + 1, s, pos, gs, ge)
                      ELSE [ok |-> FALSE]
             ELSE IF atom = "(" THEN MatchFrom(prog, k + 1, s, pos, pos, ge)
             ELSE IF atom = ")" THEN MatchFrom(prog, k + 1, s, pos, gs, pos)
             ELSE IF pos < Len(s) /\ Accepts(atom, s[pos + 1])
                  THEN MatchFrom(prog, k + 1, s, pos + 1, gs, ge)
                  ELSE [ok |-> FALSE]

\* Pattern.findall: the non-overlapping matches from left to right; the group
\* of each when the pattern has one, the whole match otherwise
RECURSIVE FindAllFrom(_, _, _)
FindAllFrom(prog, s, pos) ==
    IF pos > Len(s) THEN <<>>
    ELSE LET m == MatchFrom(prog, 1, s, pos, -1, -1)
         IN  IF ~m.ok THEN FindAllFrom(prog, s, pos + 1)
             ELSE <<IF m.gs >= 0 THEN Slice(s, m.gs, m.ge) ELSE Slice(s, pos, m.end)>>
                  \o FindAllFrom(prog, s, IF m.end > pos THEN m.end ELSE pos + 1)

findall(re, s) == FindAllFrom(re.prog, s, 0)

-----------------------------------------------------------------------------
(* AgreementValidator.__init__ *)

\* What yaml.safe_load returns: None, an int, a float, a str, a list of
\* scalars, or a mapping from str keys to such values.
NoneV == [t |-> "none"]
IntV(n) == [t |-> "int", n |-> n]
FloatV(q) == [t |-> "float", q |-> q]
StrV(s) == [t |-> "str", s |-> s]
ListV(items) == [t |-> "list", items |-> items]
DictV(m) == [t |-> "dict", m |-> m]

EmptyDict == [k \in {} |-> NoneV]

\* bool(v)
Truthy(v) ==
    CASE v.t = "none" -> FALSE
      [] v.t = "int" -> v.n # 0
      [] v.t = "float" -> v.q[1] # 0
      [] v.t = "str" -> v.s # <<>>
      [] v.t = "list" -> v.items # <<>>
      [] v.t = "dict" -> DOMAIN v.m # {}

DEFAULT_CONFIG ==
    [pan_regex |-> StrV(<<"\\b", "(", "[A-Z]", "{5}", "[0-9]", "{4}", "[A-Z]", ")", "\\b">>),
     gst_regex |-> StrV(<<"\\b", "[0-9]", "{2}", "[A-Z]", "{5}", "[0-9]", "{4}", "[A-Z]",
                          "[1-9A-Z]", "Z", "[0-9A-Z]", "\\b">>),
     coi_keywords |-> ListV(<<
        StrV(<<"c", "e", "r", "t", "i", "f", "i", "c", "a", "t", "e", " ", "o", "f", " ", "i", "n", "c", "o", "r", "p", "o", "r", "a", "t", "i", "o", "n">>),
        StrV(<<"i", "n", "c", "o", "r", "p", "o", "r", "a", "t", "i", "o", "n", " ", "c", "e", "r", "t", "i", "f", "i", "c", "a", "t", "e">>)>>),
     ratecard_keywords |-> ListV(<<
        StrV(<<"r", "a", "t", "e", " ", "c", "a", "r", "d">>),
        StrV(<<"r", "a", "t", "e", "-", "c", "a", "r", "d">>),
        StrV(<<"p", "r", "i", "c", "e", " ", "l", "i", "s", "t">>)>>),
     similarity_threshold |-> FloatV(<<3, 4>>)]

Raise(e) == [error |-> e]
Raised(r) == "error" \in DOMAIN r

\* dict.update(v) on the copy of the defaults
DictUpdate(base, v) ==
    CASE v.t = "dict" -> [dict |-> v.m @@ base]
      [] v.t = "str" -> Raise("ValueError")
      [] v.t \in {"int", "float"} -> Raise("TypeError")
      [] v.t = "list" ->
            IF \E i \in DOMAIN v.items : v.items[i].t # "str" THEN Raise("TypeError")
            ELSE IF \E i \in DOMAIN v.items : Len(v.items[i].s) # 2 THEN Raise("ValueError")
            ELSE LET last(k) == CHOOSE i \in DOMAIN v.items :
                                    /\ v.items[i].s[1] = k
                                    /\ \A j \in DOMAIN v.items : v.items[j].s[1] = k => j <= i
                 IN  [dict |-> [k \in {v.items[i].s[1] : i \in DOMAIN v.items} |->
                                    StrV(<<v.items[last(k)].s[2]>>)] @@ base]

\* re.compile(cfg.get(key) or ""), falling back to the default pattern on re.error
CompileOrDefault(cfg, key) ==
    LET pattern == IF Truthy(cfg[key]) THEN cfg[key] ELSE StrV(<<>>)
    IN  IF pattern.t # "str" THEN Raise("TypeError")
        ELSE LET re == re_compile(pattern.s)
             IN  IF Raised(re) THEN re_compile(DEFAULT_CONFIG[key].s) ELSE re

\* [k.lower() for k in v]
LowerAll(v) ==
    CASE v.t \in {"none", "int", "float"} -> Raise("TypeError")
      [] v.t = "str" -> [list |-> [i \in DOMAIN v.s |-> <<LowerChar(v.s[i])>>]]
      [] v.t = "list" ->
            IF \E i \in DOMAIN v.items : v.items[i].t # "str" THEN Raise("AttributeError")
            ELSE [list |-> [i \in DOMAIN v.items |-> Lower(v.items[i].s)]]

\* str.strip()
RECURSIVE Strip(_)
Strip(s) ==
    IF s = <<>> THEN s
    ELSE IF s[1] \in Whitespace THEN Strip(Tail(s))
    ELSE IF s[Len(s)] \in Whitespace THEN Strip(SubSeq(s, 1, Len(s) - 1))
    ELSE s

DigitValue(c) == (CHOOSE i \in DOMAIN Digits : Digits[i] = c) - 1

RECURSIVE DecimalValue(_)
\* the number a sequence of decimal digits writes
DecimalValue(ds) ==
    IF ds = <<>> THEN 0
    ELSE 10 * DecimalValue(SubSeq(ds, 1, Len(ds) - 1)) + DigitValue(ds[Len(ds)])

RECURSIVE Pow10(_)
Pow10(n) == IF n = 0 THEN 1 ELSE 10 * Pow10(n - 1)

\* float(str) for unsigned decimal numerals "12", "0.75", ".5", "1."
ParseFloat(s) ==
    LET u == Strip(s)
        dots == {i \in DOMAIN u : u[i] = "."}
        digits == SelectSeq(u, LAMBDA c : c # ".")
    IN  IF \/ digits = <<>>
           \/ Cardinality(dots) > 1
           \/ \E i \in DOMAIN digits : digits[i] \notin Range(Digits)
        THEN Raise("ValueError")
        ELSE LET frac == IF dots = {} THEN 0 ELSE Len(u) - (CHOOSE i \in dots : TRUE)
             IN  [float |-> <<DecimalValue(digits), Pow10(frac)>>]

\* float(v)
ToFloat(v) ==
    CASE v.t = "float" -> [float |-> v.q]
      [] v.t = "int" -> [float |-> <<v.n, 1>>]
      [] v.t = "str" -> ParseFloat(v.s)
      [] v.t \in {"none", "list", "dict"} -> Raise("TypeError")

\* The constructor on what config_path holds: [kind |-> "missing"] (open
\* raises), [kind |-> "unparsable"] (safe_load raises) or [kind |-> "parsed",
\* value |-> v].  The constructed object, or the exception that escapes.
Construct(source) ==
    LET loaded == IF source.kind = "parsed" /\ Truthy(source.value)
                  THEN source.value ELSE DictV(EmptyDict)
        merged == DictUpdate(DEFAULT_CONFIG, loaded)
    IN  IF Raised(merged) THEN merged
        ELSE LET cfg == merged.dict
                 pan_re == CompileOrDefault(cfg, "pan_regex")
                 gst_re == CompileOrDefault(cfg, "gst_regex")
                 coi == LowerAll(cfg["coi_keywords"])
                 ratecard == LowerAll(cfg["ratecard_keywords"])
                 threshold == ToFloat(cfg["similarity_threshold"])
             IN  IF Raised(pan_re) THEN pan_re
                 ELSE IF Raised(gst_re) THEN gst_re
                 ELSE IF Raised(coi) THEN coi
                 ELSE IF Raised(ratecard) THEN ratecard
                 ELSE IF Raised(threshold) THEN threshold
                 ELSE [cfg |-> cfg, pan_re |-> pan_re, gst_re |-> gst_re,
                       coi_keywords |-> coi.list, ratecard_keywords |-> ratecard.list,
                       sim_threshold |-> threshold.float]

-----------------------------------------------------------------------------
(* AgreementValidator._search_pan_gst, ._keyword_check, .validate *)

\* caps of validate
LineCap == 200
MainCap == 20
ClientCap == 40
SnippetLen == 1000

_search_pan_gst(obj, txt) ==
    IF txt = <<>> THEN [pan |-> <<>>, gst |-> <<>>]
    ELSE [pan |-> findall(obj.pan_re, txt), gst |-> findall(obj.gst_re, txt)]

\* k in t, for two str
StrIn(k, t) == \E i \in 0..(Len(t) - Len(k)) : SubSeq(t, i + 1, i + Len(k)) = k

\* _keyword_check without the lower-casing of the text
_keyword_check_text_not_lowered(txt, keywords) ==
    LET t == IF txt = None THEN <<>> ELSE txt
    IN  SelectSeq(keywords, LAMBDA k : StrIn(k, t))

_keyword_check(txt, keywords) ==
    LET t == Lower(IF txt = None THEN <<>> ELSE txt)
    IN  SelectSeq(keywords, LAMBDA k : StrIn(k, t))

\* the line boundaries str.splitlines() knows, among the model's characters
LineBreaks == {"\n", "\r", "\f"}

\* str.splitlines(): "\r\n" is one boundary, and no empty line follows the
\* last boundary
RECURSIVE SplitLinesFrom(_, _)
SplitLinesFrom(s, cur) ==
    IF s = <<>> THEN (IF cur = <<>> THEN <<>> ELSE <<cur>>)
    ELSE IF s[1] \in LineBreaks
    THEN <<cur>> \o SplitLinesFrom(IF s[1] = "\r" /\ Len(s) >= 2 /\ s[2] = "\n"
                                   THEN SubSeq(s, 3, Len(s)) ELSE Tail(s), <<>>)
    ELSE SplitLinesFrom(Tail(s), Append(cur, s[1]))

splitlines(s) == SplitLinesFrom(s, <<>>)

\* [l.strip() for l in txt.splitlines() if l.strip()][:200]
StrippedLines(txt) ==
    LET lines == splitlines(txt)
        kept == SelectSeq([i \in DOMAIN lines |-> Strip(lines[i])], LAMBDA l : l # <<>>)
    IN  Slice(kept, 0, LineCap)

\* the inner loop of validate over the client lines
RECURSIVE BestMatch(_, _, _, _)
BestMatch(m, cs, best, best_line) ==
    IF cs = <<>> THEN [main |-> m, best_match |-> best_line, score |-> best]
    ELSE LET sim == clause_similarity(m, cs[1])
         IN  IF RatLess(best, sim) THEN BestMatch(m, Tail(cs), sim, cs[1])
             ELSE BestMatch(m, Tail(cs), best, best_line)

Similarities(main_lines, client_lines) ==
    LET ms == Slice(main_lines, 0, MainCap)
    IN  [i \in DOMAIN ms |-> BestMatch(ms[i], Slice(client_lines, 0, ClientCap), <<0, 1>>, None)]

\* str(n) for n >= 0
RECURSIVE Decimal(_)
Decimal(n) == IF n < 10 THEN <<Digits[n + 1]>> ELSE Decimal(n \div 10) \o <<Digits[(n % 10) + 1]>>

\* f"document_{idx+1}.pdf"
DefaultName(idx) ==
    <<"d", "o", "c", "u", "m", "e", "n", "t", "_">> \o Decimal(idx + 1) \o <<".", "p", "d", "f">>

\* "if not (t and t.strip()): t = ''"
BlankToEmpty(t) == IF t = <<>> \/ Strip(t) = <<>> THEN <<>> ELSE t

\* the body of the loop over the extra documents, for one document.
\* extract_text_and_images absorbs every failure of the backend itself, so
\* the loop's own "except Exception: d_text = ''" is never entered; a document
\* that cannot be read arrives here with the text "".
DocumentSummary(obj, available, doc) ==
    LET d_text == BlankToEmpty(extract_text_and_images(available, doc).text)
        ids == _search_pan_gst(obj, d_text)
    IN  [pan |-> ids.pan, gst |-> ids.gst,
         coi_keywords |-> _keyword_check(d_text, obj.coi_keywords),
         rate_keywords |-> _keyword_check(d_text, obj.ratecard_keywords),
         text_snippet |-> Slice(d_text, 0, SnippetLen)]

\* the loop over the extra documents: documents_summary after the documents
\* from idx on
RECURSIVE DocumentsLoop(_, _, _, _, _, _)
DocumentsLoop(obj, available, docs, names, idx, documents_summary) ==
    IF idx >= Len(docs) THEN documents_summary
    ELSE LET doc_name == IF idx < Len(names) THEN names[idx + 1] ELSE DefaultName(idx)
         IN  DocumentsLoop(obj, available, docs, names, idx + 1,
                 (doc_name :> DocumentSummary(obj, available, docs[idx + 1]))
                     @@ documents_summary)

\* "x or []" for an optional list: NoValue, or [list |-> the list]
OrEmptyList(v) == IF "none" \in DOMAIN v THEN <<>> ELSE v.list

validate(obj, available, main, client, docs, names) ==
    LET main_text == BlankToEmpty(extract_text_and_images(available, main).text)
        client_text == BlankToEmpty(extract_text_and_images(available, client).text)
        ids_main == _search_pan_gst(obj, main_text)
        ids_client == _search_pan_gst(obj, client_text)
    IN  [pan |-> [main |-> ids_main.pan, client |-> ids_client.pan],
         gst |-> [main |-> ids_main.gst, client |-> ids_client.gst],
         coi_keywords |-> [main |-> _keyword_check(main_text, obj.coi_keywords),
                           client |-> _keyword_check(client_text, obj.coi_keywords)],
         rate_keywords |-> [main |-> _keyword_check(main_text, obj.ratecard_keywords),
                            client |-> _keyword_check(client_text, obj.ratecard_keywords)],
         diff |-> simple_diff(main_text, client_text),
         clause_similarity_samples |->
             Similarities(StrippedLines(main_text), StrippedLines(client_text)),
         documents |-> DocumentsLoop(obj, available, OrEmptyList(docs),
                                     OrEmptyList(names), 0, <<>>)]

-----------------------------------------------------------------------------
(* Values of the variables a specification does not use *)

HelpersIdle == a = <<>> /\ b = <<>> /\ diff = NoValue /\ score = <<>>
ExtractIdle == pdf = NoValue /\ extracted = NoValue
CtorIdle == config_file = NoValue /\ self = NoValue
KeywordIdle == text = <<>> /\ found = <<>>
ValidateIdle ==
    /\ main_pdf = NoValue
    /\ client_pdf = NoValue
    /\ documents = NoValue
    /\ document_names = NoValue
    /\ summary = NoValue

-----------------------------------------------------------------------------
(* The helpers called on arbitrary short strings *)

HelperChars == {"a", "A", " "}

InitHelpers ==
    /\ pc = "start"
    /\ a \in StringsUpTo(HelperChars, MaxLen)
    /\ b \in StringsUpTo(HelperChars, MaxLen)
    /\ diff = NoValue
    /\ score = <<>>
    /\ backend = TRUE
    /\ ExtractIdle /\ CtorIdle /\ KeywordIdle /\ ValidateIdle

CallSimpleDiff ==
    /\ pc \in {"start", "scored"}
    /\ diff' = simple_diff(a, b)
    /\ pc' = "diffed"
    /\ UNCHANGED <<a, b, score, backend, extractVars, ctorVars, keywordVars, validateVars>>

CallFuzzyRatio ==
    /\ pc \in {"start", "diffed"}
    /\ score' = clause_similarity(a, b)
    /\ pc' = "scored"
    /\ UNCHANGED <<a, b, diff, backend, extractVars, ctorVars, keywordVars, validateVars>>

NextHelpers == CallSimpleDiff \/ CallFuzzyRatio

SpecHelpers == InitHelpers /\ [][NextHelpers]_vars

-----------------------------------------------------------------------------
(* extract_text_and_images on arbitrary short documents *)

PageTexts == {<<>>, <<"a">>, <<"b", "\n">>}

PageOutcomes ==
    {[kind |-> "raise", text |-> <<>>], [kind |-> "none", text |-> <<>>]}
        \cup {[kind |-> "text", text |-> t] : t \in PageTexts}

Pdfs ==
    [openable : BOOLEAN, pages : StringsUpTo(PageOutcomes, MaxPages), convertible : BOOLEAN]

InitExtract ==
    /\ pc = "start"
    /\ backend \in BOOLEAN
    /\ pdf \in Pdfs
    /\ extracted = NoValue
    /\ HelpersIdle /\ CtorIdle /\ KeywordIdle /\ ValidateIdle

CallExtract ==
    /\ pc = "start"
    /\ "none" \notin DOMAIN pdf
    /\ extracted' = extract_text_and_images(backend, pdf)
    /\ pc' = "extracted"
    /\ UNCHANGED <<pdf, backend, helperVars, ctorVars, keywordVars, validateVars>>

NextExtract == CallExtract

SpecExtract == InitExtract /\ [][NextExtract]_vars

-----------------------------------------------------------------------------
(* AgreementValidator(config_path) on arbitrary configuration sources *)

Absent == [t |-> "absent"]

PanValues ==
    {Absent, NoneV, IntV(5), StrV(<<>>), StrV(<<"[A-Z]", "[0-9]">>), StrV(<<"[A-Z">>)}
GstValues == {Absent, StrV(<<"[0-9]", "{2}">>), StrV(<<"(", "[0-9]">>)}
CoiValues ==
    {Absent, NoneV, StrV(<<"A", "b">>), ListV(<<>>), ListV(<<StrV(<<"A", "b">>)>>),
     ListV(<<StrV(<<"a">>), IntV(1)>>)}
RatecardValues == {Absent, ListV(<<StrV(<<"B">>), StrV(<<"a">>)>>)}
ThresholdValues ==
    {Absent, NoneV, IntV(1), FloatV(<<1, 2>>), StrV(<<"0", ".", "5">>), StrV(<<"x">>)}

\* the mapping holding the keys whose value is not Absent
MappingOf(p, g, c, r, th) ==
    LET all == [pan_regex |-> p, gst_regex |-> g, coi_keywords |-> c,
                ratecard_keywords |-> r, similarity_threshold |-> th]
    IN  [k \in {x \in DOMAIN all : all[x] # Absent} |-> all[k]]

ConfigSources ==
    {[kind |-> "missing"], [kind |-> "unparsable"]}
        \cup {[kind |-> "parsed", value |-> v] :
                v \in {NoneV, IntV(5), StrV(<<"h", "i">>), ListV(<<StrV(<<"a", "b">>)>>),
                       ListV(<<StrV(<<"a">>)>>), ListV(<<IntV(1)>>)}}
        \cup {[kind |-> "parsed", value |-> DictV(MappingOf(p, g, c, r, th))] :
                p \in PanValues, g \in GstValues, c \in CoiValues,
                r \in RatecardValues, th \in ThresholdValues}

InitConfig ==
    /\ pc = "start"
    /\ config_file \in ConfigSources
    /\ self = NoValue
    /\ backend = TRUE
    /\ HelpersIdle /\ ExtractIdle /\ KeywordIdle /\ ValidateIdle

New ==
    /\ pc = "start"
    /\ "none" \notin DOMAIN config_file
    /\ self' = Construct(config_file)
    /\ pc' = IF Raised(self') THEN "raised" ELSE "constructed"
    /\ UNCHANGED <<config_file, backend, helperVars, extractVars, keywordVars, validateVars>>

NextConfig == New

SpecConfig == InitConfig /\ [][NextConfig]_vars

-----------------------------------------------------------------------------
(* _keyword_check with the rate-card keywords of a configured validator *)

KeywordChars == {"a", "A", "b"}

KeywordLists ==
    StringsUpTo({StrV(k) : k \in StringsUpTo(KeywordChars, MaxKeywordLen)}, MaxKeywords)

InitKeywords ==
    /\ pc = "start"
    /\ config_file \in
          {[kind |-> "parsed", value |-> DictV([ratecard_keywords |-> ListV(ks)])] :
              ks \in KeywordLists}
    /\ self = NoValue
    /\ text \in StringsUpTo(KeywordChars, MaxKeywordText)
    /\ found = <<>>
    /\ backend = TRUE
    /\ HelpersIdle /\ ExtractIdle /\ ValidateIdle

CallKeywordCheck ==
    /\ pc = "constructed"
    /\ found' = _keyword_check(text, self.ratecard_keywords)
    /\ pc' = "checked"
    /\ UNCHANGED <<text, backend, helperVars, extractVars, ctorVars, validateVars>>

NextKeywords == New \/ CallKeywordCheck

SpecKeywords == InitKeywords /\ [][NextKeywords]_vars

-----------------------------------------------------------------------------
(* validate on short main and client documents *)

\* a one-page document whose page holds the text t
TextPdf(t) ==
    [openable |-> TRUE, pages |-> <<[kind |-> "text", text |-> t]>>, convertible |-> TRUE]

\* n lines reading `line`, then one line reading `last`
ManyLines(n, line, last) == Join(<<"\n">>, [i \in 1..(n + 1) |-> IF i <= n THEN line ELSE last])

ValidateChars == {"a", "b", "\n"}

ValidateTexts ==
    StringsUpTo(ValidateChars, MaxTextLen)
        \cup {<<"A", "B", "C", "D", "E", "1", "2", "3", "4", "F", " ", "i", "s", " ", "t", "h", "e", " ", "P", "A", "N">>,
              <<"L", "i", "n", "e", "1", "\n", "L", "i", "n", "e", "2">>,
              <<"L", "i", "n", "e", "1", "\n", "L", "i", "n", "e", "X">>,
              <<"R", "a", "t", "e", " ", "C", "a", "r", "d">>,
              ManyLines(MainCap, <<"a">>, <<"b">>),
              ManyLines(ClientCap, <<"b">>, <<"a">>)}

\* the validator of app.py (no config.yaml), and one with short keywords
ValidateConfigs ==
    {[kind |-> "missing"],
     [kind |-> "parsed",
      value |-> DictV([coi_keywords |-> ListV(<<StrV(<<"a">>)>>),
                       ratecard_keywords |-> ListV(<<StrV(<<"b">>), StrV(<<"a", "b">>)>>)])]}

ExtraPdfs ==
    {TextPdf(<<>>), TextPdf(<<"a">>), TextPdf(<<"b">>),
     [openable |-> FALSE, pages |-> <<>>, convertible |-> FALSE],
     [openable |-> TRUE,
      pages |-> <<[kind |-> "text", text |-> <<"a">>], [kind |-> "raise", text |-> <<>>]>>,
      convertible |-> TRUE]}

DisplayNames == {<<"x">>, DefaultName(1)}

OptionalLists(S, n) == {NoValue} \cup {[list |-> l] : l \in StringsUpTo(S, n)}

InitValidate ==
    /\ pc = "start"
    /\ backend = TRUE
    /\ config_file \in ValidateConfigs
    /\ self = Construct(config_file)
    /\ main_pdf \in {TextPdf(t) : t \in ValidateTexts}
    /\ client_pdf \in {TextPdf(t) : t \in ValidateTexts}
    /\ documents = NoValue
    /\ document_names = NoValue
    /\ summary = NoValue
    /\ HelpersIdle /\ ExtractIdle /\ KeywordIdle

CallValidate ==
    /\ pc = "start"
    /\ ~Raised(self)
    /\ summary' = validate(self, backend, main_pdf, client_pdf, documents, document_names)
    /\ pc' = "validated"
    /\ UNCHANGED <<main_pdf, client_pdf, documents, document_names, backend,
                   helperVars, extractVars, ctorVars, keywordVars>>

NextValidate == CallValidate

SpecValidate == InitValidate /\ [][NextValidate]_vars

-----------------------------------------------------------------------------
(* validate on lists of extra documents *)

InitDocuments ==
    /\ pc = "start"
    /\ backend \in BOOLEAN
    /\ config_file = [kind |-> "missing"]
    /\ self = Construct(config_file)
    /\ main_pdf \in {TextPdf(<<>>), TextPdf(<<"a">>)}
    /\ client_pdf = TextPdf(<<"a">>)
    /\ documents \in OptionalLists(ExtraPdfs, MaxDocuments)
    /\ document_names \in OptionalLists(DisplayNames, MaxDocuments)
    /\ summary = NoValue
    /\ HelpersIdle /\ ExtractIdle /\ KeywordIdle

SpecDocuments == InitDocuments /\ [][NextValidate]_vars

-----------------------------------------------------------------------------
(* Properties of the diff engine and of the similarity scorer *)

\* a with the edit script applied: every "delete" span dropped, which must be
\* the next span of d.removed, every "insert" span taken from the next span
\* of d.added, and every other span of a left as it is
RECURSIVE Rebuild(_, _, _, _, _)
Rebuild(x, ops, d, na, nr) ==
    IF ops = <<>> THEN <<>>
    ELSE LET op == ops[1]
         IN  CASE op.tag = "insert" ->
                    d.added[na + 1] \o Rebuild(x, Tail(ops), d, na + 1, nr)
               [] op.tag = "delete" ->
                    Rebuild(x, Tail(ops), d, na, nr + 1)
               [] OTHER ->
                    Slice(x, op.i1, op.i2) \o Rebuild(x, Tail(ops), d, na, nr)

\* C1: for all strings a and b, walking the opcodes of the alignment in order,
\* deleting the spans of diff(a,b).removed and inserting the spans of
\* diff(a,b).added, and touching nothing else, reproduces b.
C1_RoundTrip ==
    pc = "diffed" => Rebuild(a, get_opcodes(a, b), diff, 0, 0) = b

\* C2: score(a,b) = score(b,a) for all strings a and b.
C2_Symmetric ==
    pc = "scored" => RatEq(score, clause_similarity(b, a))

\* |intersection| / |union| of the lower-cased whitespace-split token sets,
\* 0 when either set is empty
TokenJaccard(x, y) ==
    LET tx == TokenSet(Lower(x))
        ty == TokenSet(Lower(y))
    IN  IF tx = {} \/ ty = {} THEN <<0, 1>>
        ELSE <<Cardinality(tx \cap ty), Cardinality(tx \cup ty)>>

\* 0.6 * j + 0.4 * r
Blend(j, r) == <<3 * j[1] * r[2] + 2 * r[1] * j[2], 5 * j[2] * r[2]>>

\* C7: for non-empty a and b the score is 0.6 * tokenJaccard + 0.4 *
\* sequenceRatio, tokenJaccard being 0.0 when either token set is empty, so
\* that such inputs still receive the 0.4 * sequenceRatio part.
C7_Blend ==
    (pc = "scored" /\ a # <<>> /\ b # <<>>)
        => RatEq(score, Blend(TokenJaccard(a, b), ratio(a, b)))

\* C9: the score lies in [0.0, 1.0]; it is 1.0 when both strings are empty
\* and 0.0 when exactly one of them is.
C9_Range ==
    pc = "scored" =>
        /\ ~RatLess(score, <<0, 1>>)
        /\ ~RatLess(<<1, 1>>, score)
        /\ (a = <<>> /\ b = <<>>) => RatEq(score, <<1, 1>>)
        /\ ((a = <<>>) # (b = <<>>)) => RatEq(score, <<0, 1>>)

\* a blend strictly between 0 and 1 has been returned for two non-empty
\* strings
C9_Witness ==
    /\ pc = "scored"
    /\ a # <<>> /\ b # <<>>
    /\ RatLess(<<0, 1>>, score) /\ RatLess(score, <<1, 1>>)

-----------------------------------------------------------------------------
(* Properties of the extractor and of the constructor *)

\* C6: with the backend available, a page whose text extraction fails gives
\* the empty string for that page only, the text of the other pages is kept,
\* and a failing image conversion gives an empty page list without changing
\* the text.
C6_PageFailure ==
    (pc = "extracted" /\ backend /\ pdf.openable) =>
        /\ extracted.text =
              Join(<<"\n", "\n">>,
                   [i \in DOMAIN pdf.pages |->
                       IF pdf.pages[i].kind = "text" THEN pdf.pages[i].text ELSE <<>>])
        /\ ~pdf.convertible => extracted.pages = <<>>

ConfigKeys == DOMAIN DEFAULT_CONFIG

\* C5: construction never fails: a missing or unparsable source yields the
\* defaults, an override replaces the default per key, missing keys keep the
\* default, and a pattern string that is no valid regex is replaced by the
\* built-in default pattern.
C5_NeverFails ==
    pc \in {"constructed", "raised"} =>
        /\ ~Raised(self)
        /\ config_file.kind \in {"missing", "unparsable"} => self.cfg = DEFAULT_CONFIG
        /\ (config_file.kind = "parsed" /\ config_file.value.t = "dict") =>
              \A k \in ConfigKeys :
                  self.cfg[k] = IF k \in DOMAIN config_file.value.m
                                THEN config_file.value.m[k] ELSE DEFAULT_CONFIG[k]
        /\ \A k \in {"pan_regex", "gst_regex"} :
              (self.cfg[k].t = "str" /\ Raised(re_compile(self.cfg[k].s))) =>
                  (IF k = "pan_regex" THEN self.pan_re ELSE self.gst_re)
                      = re_compile(DEFAULT_CONFIG[k].s)

-----------------------------------------------------------------------------
(* Properties of the keyword check *)

\* the keyword list as the configuration source gives it
ConfiguredKeywords ==
    [i \in DOMAIN config_file.value.m["ratecard_keywords"].items |->
        config_file.value.m["ratecard_keywords"].items[i].s]

\* k occurs in t: t is some prefix of t, then k, then some suffix of t
OccursIn(k, t) ==
    \E i \in 0..Len(t) : \E j \in i..Len(t) :
        SubSeq(t, 1, i) \o k \o SubSeq(t, j + 1, Len(t)) = t

\* s enumerates, in increasing order of index, the elements of list at the
\* indices in idx
EnumeratesInOrder(s, list, idx) ==
    /\ Len(s) = Cardinality(idx)
    /\ \A n \in DOMAIN s :
          \E i \in idx : /\ Cardinality({j \in idx : j < i}) = n - 1
                         /\ s[n] = list[i]

\* the indices of the configured keywords whose lowercase form occurs in the
\* lower-cased text
OccurringKeywords ==
    {i \in DOMAIN ConfiguredKeywords : OccursIn(Lower(ConfiguredKeywords[i]), Lower(text))}

\* C10 as stated: the keyword check returns exactly the elements of the
\* keyword list, in the list's order, whose lowercase form is a substring of
\* the lower-cased text, whatever the letter case of text and keywords.
C10_ReturnsListElements ==
    pc = "checked" => EnumeratesInOrder(found, ConfiguredKeywords, OccurringKeywords)

\* C10 as amended: the keyword check returns, in the list's order, the
\* lowercase forms of exactly those configured keywords whose lowercase form
\* is a substring of the lower-cased text.
C10_ReturnsLowercaseForms ==
    pc = "checked" =>
        EnumeratesInOrder(found,
                          [i \in DOMAIN ConfiguredKeywords |-> Lower(ConfiguredKeywords[i])],
                          OccurringKeywords)

\* two configured keywords were found, in order, the first configured in
\* upper case, in a text holding it in lower case after another character
C10_Witness ==
    /\ pc = "checked"
    /\ Len(ConfiguredKeywords) = 2
    /\ ConfiguredKeywords[1] = <<"A">>
    /\ ConfiguredKeywords[2] = <<"b">>
    /\ text = <<"b", "A">>
    /\ found = <<<<"a">>, <<"b">>>>

-----------------------------------------------------------------------------
(* Properties of validate *)

\* C3: every textual field of the report is a string or a sequence, never a
\* missing value; in particular every sample's best-match line is a string.
C3_NoMissingValue ==
    pc = "validated" =>
        \A i \in DOMAIN summary.clause_similarity_samples :
            /\ summary.clause_similarity_samples[i].main # None
            /\ summary.clause_similarity_samples[i].best_match # None

\* the trimmed non-empty lines of a text, in document order
TrimmedLines(t) ==
    LET lines == splitlines(t)
    IN  SelectSeq([i \in DOMAIN lines |-> Strip(lines[i])], LAMBDA l : l # <<>>)

\* C8: one sample for each of the first 20 trimmed non-empty main lines, in
\* order; its score is the maximum score against the first 40 trimmed
\* non-empty client lines and its best match the first client line that
\* attains the maximum, at every score value.
C8_Samples ==
    pc = "validated" =>
        LET ms == Slice(TrimmedLines(extract_text_and_images(backend, main_pdf).text),
                        0, MainCap)
            cs == Slice(TrimmedLines(extract_text_and_images(backend, client_pdf).text),
                        0, ClientCap)
            samples == summary.clause_similarity_samples
        IN  /\ Len(samples) = Len(ms)
            /\ \A i \in DOMAIN samples :
                  /\ samples[i].main = ms[i]
                  /\ cs # <<>> =>
                        \E n \in DOMAIN cs :
                            /\ samples[i].best_match = cs[n]
                            /\ RatEq(samples[i].score, clause_similarity(ms[i], cs[n]))
                            /\ \A k \in DOMAIN cs :
                                  ~RatLess(samples[i].score, clause_similarity(ms[i], cs[k]))
                            /\ \A k \in 1..(n - 1) :
                                  RatLess(clause_similarity(ms[i], cs[k]), samples[i].score)

\* C4: the documents mapping holds for each extra document i its own
\* summary, computed from that document's extracted text only (empty values
\* when its extraction fails), under its display name, or under
\* document_{i+1}.pdf when no name was supplied.
C4_OwnSummaryPerDocument ==
    pc = "validated" =>
        LET docs == OrEmptyList(documents)
            names == OrEmptyList(document_names)
        IN  \A i \in DOMAIN docs :
                LET name == IF i <= Len(names) THEN names[i] ELSE DefaultName(i - 1)
                IN  /\ name \in DOMAIN summary.documents
                    /\ summary.documents[name] = DocumentSummary(self, backend, docs[i])

=============================================================================
